---- MODULE Spec2Model ----
(***************************************************************************)
(* Model of the snake game in src/main.rs: the Board grid, the Snake       *)
(* (positions deque, direction, pending growth), the fruit position and    *)
(* the Game operations init(), keyboard_action() and step().               *)
(*                                                                         *)
(* Spec drives the game through an arbitrary caller, MainSpec is the loop  *)
(* of main() with its input stream, NewSpec applies Board::new alone.      *)
(*                                                                         *)
(* Coordinates are pairs <<x, y>>.  The VecDeque `positions` is a          *)
(* sequence whose first element is the front (tail of the snake) and whose *)
(* last element is the back (head of the snake).  cells[y][x] is the grid. *)
(***************************************************************************)
EXTENDS Integers, Sequences, FiniteSets, TLC

\* ---------------------------------------------------------------- bounds
\* Board dimensions passed to Board::new and the longest snake explored.
MaxWidth == 2
MaxHeight == 3
MaxLen == 3
\* The most key events pending on the input stream.
MaxKeys == 2
\* The largest dimension handed to Board::new on its own.
MaxDim == 9

\* The boards explored, as <<width, height>>.
Boards == (1..MaxWidth) \X (2..MaxHeight)

\* The boards the main loop is run on.
MainBoards == {<<2, 2>>}

\* ------------------------------------------------------ program constants
SNAKE_CHAR == "■"
BG_CHAR == "."
FRUIT_CHAR == "x"
\* The status handed to std::process::exit on Char('q').
EXIT_STATUS == 256

Direction == {"UP", "DOWN", "LEFT", "RIGHT"}

\* Key events handed to keyboard_action: the four arrows, Char('q') and a
\* representative of every other key (Char('a')).
Keys == {"Up", "Down", "Left", "Right", "q", "a"}

\* What keys.next() can yield besides None: Some(Ok(k)) as k, Some(Err(_))
\* as "Err".
Events == Keys \cup {"Err"}

VARIABLES
    height,          \* board.height
    width,           \* board.width
    cells,           \* board.cells
    size,            \* snake.size
    direction,       \* snake.direction
    positions,       \* snake.positions
    grow,            \* snake.grow
    fruit_position,  \* game.fruit_position
    old_pos,         \* old_position the last operation handed to draw_snake
    eaten,           \* fruit coordinate the last check_fruit found in the body
    collisions,      \* number of check_fruit calls that found the fruit
    last,            \* last operation completed on the game
    key,             \* key argument of that operation, "none" without one
    exit_code,       \* status handed to std::process::exit, "none" before
    pc,              \* main: where the loop stands, "none" outside main
    keys,            \* main: key events pending on the input stream
    frame            \* main: the grid last printed

\* The game and what its operations leave behind.
gvars == <<height, width, cells, size, direction, positions, grow,
           fruit_position, old_pos, eaten, collisions, last, key, exit_code>>

\* The main loop around it.
lvars == <<pc, keys, frame>>

vars == <<gvars, lvars>>

\* ------------------------------------------------------------- helpers
Range(s) == {s[i] : i \in 1..Len(s)}

\* No coordinate: check_fruit found no fruit in the body.
NoCoord == <<>>

\* VecDeque::contains
contains(pos, c) == \E i \in 1..Len(pos) : pos[i] = c

\* VecDeque::remove(0): removes the front element, a no-op when empty
remove_front(pos) == IF Len(pos) = 0 THEN pos ELSE Tail(pos)

\* ---------------------------------------------------------------- Board
Board_new(h, w) ==
    [height |-> h, width |-> w,
     cells |-> [y \in 0..(h - 1) |-> [x \in 0..(w - 1) |-> BG_CHAR]]]

\* The grid of a process that panicked on an index out of bounds.
PANIC == <<"panic">>

\* cells[y][x] = ch, which panics when y or x is out of bounds
set_cell(c, x, y, ch) ==
    IF c = PANIC THEN PANIC
    ELSE IF y \in DOMAIN c /\ x \in DOMAIN c[y] THEN [c EXCEPT ![y][x] = ch]
    ELSE PANIC

RECURSIVE draw_body(_, _, _)
draw_body(c, pos, i) ==
    IF i > Len(pos) THEN c
    ELSE draw_body(set_cell(c, pos[i][1], pos[i][2], SNAKE_CHAR), pos, i + 1)

\* Variant of draw_snake: the old position is erased after the redraw.
draw_snake_EraseLast(c, pos, old_position) ==
    set_cell(draw_body(c, pos, 1), old_position[1], old_position[2], BG_CHAR)

draw_snake(c, pos, old_position) ==
    draw_body(set_cell(c, old_position[1], old_position[2], BG_CHAR), pos, 1)

draw_fruit(c, fruit) == set_cell(c, fruit[1], fruit[2], FRUIT_CHAR)

\* ---------------------------------------------------------------- Snake
\* Variant of Snake_new: the snake starts with a single segment.
Snake_new_OneSegment(h, w) ==
    LET x == w \div 2
        y == h \div 2
    IN  [size |-> 1, direction |-> "DOWN",
         positions |-> << <<x, y>> >>, grow |-> 0]

Snake_new(h, w) ==
    LET x == w \div 2
        y == h \div 2
    IN  [size |-> 2, direction |-> "DOWN",
         positions |-> << <<x, y>>, <<x, y - 1>> >>, grow |-> 0]

\* Variant of Snake_grow: two units per fruit.
Snake_grow_Twice(g) == g + 2

Snake_grow(g) == g + 1

\* Variant of new_head: DOWN increments y without the reset to 0.
new_head_NoWrapDown(c, dir, h, w) ==
    LET x == c[1]
        y == c[2]
    IN  CASE dir = "UP"    -> IF y # 0 THEN <<x, y - 1>> ELSE <<x, h - 1>>
          [] dir = "DOWN"  -> <<x, y + 1>>
          [] dir = "LEFT"  -> IF x # 0 THEN <<x - 1, y>> ELSE <<w - 1, y>>
          [] dir = "RIGHT" -> IF x + 1 >= w THEN <<0, y>> ELSE <<x + 1, y>>

\* Variant of new_head: UP from y = 0 is clamped at 0 instead of wrapping.
new_head_ClampUp(c, dir, h, w) ==
    LET x == c[1]
        y == c[2]
    IN  CASE dir = "UP"    -> IF y # 0 THEN <<x, y - 1>> ELSE <<x, 0>>
          [] dir = "DOWN"  -> IF y + 1 >= h THEN <<x, 0>> ELSE <<x, y + 1>>
          [] dir = "LEFT"  -> IF x # 0 THEN <<x - 1, y>> ELSE <<w - 1, y>>
          [] dir = "RIGHT" -> IF x + 1 >= w THEN <<0, y>> ELSE <<x + 1, y>>

\* The match on self.direction: the back coordinate advanced one cell.
new_head(c, dir, h, w) ==
    LET x == c[1]
        y == c[2]
    IN  CASE dir = "UP"    -> IF y # 0 THEN <<x, y - 1>> ELSE <<x, h - 1>>
          [] dir = "DOWN"  -> IF y + 1 >= h THEN <<x, 0>> ELSE <<x, y + 1>>
          [] dir = "LEFT"  -> IF x # 0 THEN <<x - 1, y>> ELSE <<w - 1, y>>
          [] dir = "RIGHT" -> IF x + 1 >= w THEN <<0, y>> ELSE <<x + 1, y>>

\* Variant of after_removal: the tail is removed even while growing.
after_removal_AlwaysRemove(pos, g) ==
    IF g > 0 THEN [positions |-> remove_front(pos), grow |-> g - 1]
    ELSE [positions |-> remove_front(pos), grow |-> g]

\* Variant of after_removal: the counter is not decremented.
after_removal_NoDecrement(pos, g) ==
    IF g > 0 THEN [positions |-> pos, grow |-> g]
    ELSE [positions |-> remove_front(pos), grow |-> g]

\* "If still growing do not remove tail from current position"
after_removal(pos, g) ==
    IF g > 0 THEN [positions |-> pos, grow |-> g - 1]
    ELSE [positions |-> remove_front(pos), grow |-> g]

\* Variant of move_position: returns the old head instead of the old tail.
move_position_ReturnsHead(pos, g, dir, h, w) ==
    LET tail_pos == IF Len(pos) > 0 THEN pos[Len(pos)] ELSE <<0, 0>>
        r == after_removal(pos, g)
        p == r.positions
    IN  [tail_pos |-> tail_pos,
         grow |-> r.grow,
         positions |-> IF Len(p) > 0
                       THEN Append(p, new_head(p[Len(p)], dir, h, w))
                       ELSE p]

move_position(pos, g, dir, h, w) ==
    LET tail_pos == IF Len(pos) > 0 THEN pos[1] ELSE <<0, 0>>
        r == after_removal(pos, g)
        p == r.positions
    IN  [tail_pos |-> tail_pos,
         grow |-> r.grow,
         positions |-> IF Len(p) > 0
                       THEN Append(p, new_head(p[Len(p)], dir, h, w))
                       ELSE p]

\* ----------------------------------------------------------------- Game
\* Variant of new_fruit_position: both ranges are inclusive of the bound.
new_fruit_position_Inclusive(h, w) == {<<x, y>> : x \in 0..w, y \in 0..h}

\* The coordinates rng.gen_range can produce.
new_fruit_position(h, w) == {<<x, y>> : x \in 0..(w - 1), y \in 0..(h - 1)}

\* Variant of check_fruit: only the head is compared with the fruit.
check_fruit_HeadOnly(pos, fruit, g, h, w) ==
    IF Len(pos) > 0 /\ pos[Len(pos)] = fruit
    THEN {[fruit_position |-> f, grow |-> Snake_grow(g), eaten |-> fruit] :
              f \in new_fruit_position(h, w)}
    ELSE {[fruit_position |-> fruit, grow |-> g, eaten |-> NoCoord]}

\* The possible outcomes of check_fruit, one per fruit draw.
check_fruit(pos, fruit, g, h, w) ==
    IF contains(pos, fruit)
    THEN {[fruit_position |-> f, grow |-> Snake_grow(g), eaten |-> fruit] :
              f \in new_fruit_position(h, w)}
    ELSE {[fruit_position |-> fruit, grow |-> g, eaten |-> NoCoord]}

\* Variant of step: the game stops when the snake runs into itself.
step_GameOver(c, pos, g, dir, fruit, h, w) ==
    LET m == move_position(pos, g, dir, h, w)
        c1 == draw_snake(c, m.positions, m.tail_pos)
    IN  IF \E i, j \in 1..Len(m.positions) :
               i < j /\ m.positions[i] = m.positions[j]
        THEN {}
        ELSE {[old_pos |-> m.tail_pos,
               positions |-> m.positions,
               grow |-> f.grow,
               eaten |-> f.eaten,
               fruit_position |-> f.fruit_position,
               cells |-> draw_fruit(c1, f.fruit_position)] :
                   f \in check_fruit(m.positions, fruit, m.grow, h, w)}

\* The possible outcomes of step(), one per fruit draw.
step(c, pos, g, dir, fruit, h, w) ==
    LET m == move_position(pos, g, dir, h, w)
        c1 == draw_snake(c, m.positions, m.tail_pos)
    IN  IF c1 = PANIC
        THEN {[old_pos |-> m.tail_pos,
               positions |-> m.positions,
               grow |-> m.grow,
               eaten |-> NoCoord,
               fruit_position |-> fruit,
               cells |-> PANIC]}
        ELSE {[old_pos |-> m.tail_pos,
               positions |-> m.positions,
               grow |-> f.grow,
               eaten |-> f.eaten,
               fruit_position |-> f.fruit_position,
               cells |-> draw_fruit(c1, f.fruit_position)] :
                   f \in check_fruit(m.positions, fruit, m.grow, h, w)}

\* The possible outcomes of init(), one per fruit draw.
init(c, pos, h, w) ==
    {[fruit_position |-> f,
      cells |-> draw_snake(draw_fruit(c, f), pos, <<0, 0>>)] :
          f \in new_fruit_position(h, w)}

\* Variant of keyboard_action: a key opposite to the heading is ignored.
keyboard_action_NoReverse(k, dir) ==
    CASE k = "Up"    -> IF dir = "DOWN" THEN dir ELSE "UP"
      [] k = "Down"  -> IF dir = "UP" THEN dir ELSE "DOWN"
      [] k = "Right" -> IF dir = "LEFT" THEN dir ELSE "RIGHT"
      [] k = "Left"  -> IF dir = "RIGHT" THEN dir ELSE "LEFT"
      [] OTHER       -> dir

\* The heading keyboard_action leaves, for every key but Char('q').
keyboard_action(k, dir) ==
    CASE k = "Up"    -> "UP"
      [] k = "Down"  -> "DOWN"
      [] k = "Right" -> "RIGHT"
      [] k = "Left"  -> "LEFT"
      [] OTHER       -> dir

\* Char('q') => std::process::exit(0x0100)
quits(k) == k = "q"

\* -------------------------------------------------------- state machine
\* main: Board::new, Snake::new and the Game literal, before game.init().
Constructed(boards) ==
    /\ \E b \in boards : width = b[1] /\ height = b[2]
    /\ cells = Board_new(height, width).cells
    /\ size = Snake_new(height, width).size
    /\ direction = Snake_new(height, width).direction
    /\ positions = Snake_new(height, width).positions
    /\ grow = Snake_new(height, width).grow
    /\ fruit_position = <<0, 0>>
    /\ old_pos = NoCoord
    /\ eaten = NoCoord
    /\ collisions = 0
    /\ last = "new"
    /\ key = "none"
    /\ exit_code = "none"
    /\ keys = <<>>
    /\ frame = <<>>

\* The game as constructed, driven by an arbitrary caller.
Init == Constructed(Boards) /\ pc = "none"

GameInit ==
    /\ last = "new"
    /\ \E r \in init(cells, positions, height, width) :
          /\ fruit_position' = r.fruit_position
          /\ cells' = r.cells
          /\ last' = IF r.cells = PANIC THEN "panic" ELSE "init"
    /\ old_pos' = <<0, 0>>
    /\ key' = "none"
    /\ UNCHANGED <<height, width, size, direction, positions, grow, eaten,
                   collisions, exit_code>>

KeyboardAction(k) ==
    /\ last \notin {"new", "exit", "panic"}
    /\ key' = k
    /\ IF quits(k)
       THEN last' = "exit" /\ exit_code' = EXIT_STATUS /\ UNCHANGED direction
       ELSE /\ last' = "key" /\ direction' = keyboard_action(k, direction)
            /\ UNCHANGED exit_code
    /\ old_pos' = NoCoord
    /\ UNCHANGED <<height, width, cells, size, positions, grow,
                   fruit_position, eaten, collisions>>

Step ==
    /\ last \notin {"new", "exit", "panic"}
    /\ Len(positions) + (IF grow > 0 THEN 1 ELSE 0) <= MaxLen
    /\ \E r \in step(cells, positions, grow, direction, fruit_position,
                     height, width) :
          /\ old_pos' = r.old_pos
          /\ positions' = r.positions
          /\ grow' = r.grow
          /\ eaten' = r.eaten
          /\ collisions' = collisions + (IF r.eaten = NoCoord THEN 0 ELSE 1)
          /\ fruit_position' = r.fruit_position
          /\ cells' = r.cells
          /\ last' = IF r.cells = PANIC THEN "panic" ELSE "step"
    /\ key' = "none"
    /\ UNCHANGED <<height, width, size, direction, exit_code>>

Next ==
    \/ GameInit /\ UNCHANGED lvars
    \/ \E k \in Keys : KeyboardAction(k) /\ UNCHANGED lvars
    \/ Step /\ UNCHANGED lvars

Spec == Init /\ [][Next]_vars

\* ------------------------------------------------------------ main loop
\* main after the Game literal, about to call game.init().
MainInit == Constructed(MainBoards) /\ pc = "init"

\* game.init(), then async_stdin and raw mode, up to the loop.
MainGameInit ==
    /\ pc = "init"
    /\ GameInit
    /\ pc' = IF last' = "panic" THEN "panicked" ELSE "poll"
    /\ UNCHANGED <<keys, frame>>

\* The terminal delivers one more event to the input stream.
KeyArrives(e) ==
    /\ pc \notin {"exited", "panicked"}
    /\ Len(keys) < MaxKeys
    /\ keys' = Append(keys, e)
    /\ UNCHANGED <<gvars, pc, frame>>

\* Variant of main_after_key: the loop goes on after the quit key.
main_after_key_Continue(k) == "step"

\* Where main goes after keyboard_action(k): process::exit never returns.
main_after_key(k) == IF quits(k) THEN "exited" ELSE "step"

\* Variant of keys_next: takes the newest event and drops the older ones.
keys_next_Drain(ks) ==
    IF ks = <<>> THEN [item |-> "None", rest |-> ks]
    ELSE [item |-> ks[Len(ks)], rest |-> <<>>]

\* keys.next(): the oldest pending event, or None, and what stays pending.
keys_next(ks) ==
    IF ks = <<>> THEN [item |-> "None", rest |-> ks]
    ELSE [item |-> Head(ks), rest |-> Tail(ks)]

\* keys.next() is None: nothing pending.
PollNone ==
    /\ pc = "poll"
    /\ keys_next(keys).item = "None"
    /\ keys' = keys_next(keys).rest
    /\ pc' = "step"
    /\ UNCHANGED <<gvars, frame>>

\* keys.next() is Some(Err(_)): the event is dropped.
PollErr ==
    /\ pc = "poll"
    /\ keys_next(keys).item = "Err"
    /\ keys' = keys_next(keys).rest
    /\ pc' = "step"
    /\ UNCHANGED <<gvars, frame>>

\* keys.next() is Some(Ok(k)): game.keyboard_action(k).
PollKey ==
    /\ pc = "poll"
    /\ keys_next(keys).item \in Keys
    /\ keys' = keys_next(keys).rest
    /\ KeyboardAction(keys_next(keys).item)
    /\ pc' = main_after_key(keys_next(keys).item)
    /\ UNCHANGED frame

\* game.step(); game.print(&stdout); thread::sleep(FRAME_DELAY).
Tick ==
    /\ pc = "step"
    /\ Step
    /\ IF last' = "panic"
       THEN pc' = "panicked" /\ UNCHANGED frame
       ELSE pc' = "poll" /\ frame' = cells'
    /\ UNCHANGED keys

MainNext ==
    \/ MainGameInit
    \/ \E e \in Events : KeyArrives(e)
    \/ PollNone
    \/ PollErr
    \/ PollKey
    \/ Tick

MainSpec == MainInit /\ [][MainNext]_vars

\* --------------------------------------------------------- construction
\* main about to call Board::new(h, w): height and width hold the arguments.
NewInit ==
    /\ height \in 0..MaxDim
    /\ width \in 0..MaxDim
    /\ cells = <<>>
    /\ size = 0
    /\ direction = "DOWN"
    /\ positions = <<>>
    /\ grow = 0
    /\ fruit_position = <<0, 0>>
    /\ old_pos = NoCoord
    /\ eaten = NoCoord
    /\ collisions = 0
    /\ last = "main"
    /\ key = "none"
    /\ exit_code = "none"
    /\ pc = "none"
    /\ keys = <<>>
    /\ frame = <<>>

\* Board::new(height, width) returns the board.
BoardNew ==
    /\ last = "main"
    /\ cells' = Board_new(height, width).cells
    /\ last' = "board"
    /\ UNCHANGED <<height, width, size, direction, positions, grow,
                   fruit_position, old_pos, eaten, collisions, key,
                   exit_code, lvars>>

NewNext == BoardNew

NewSpec == NewInit /\ [][NewNext]_vars

\* ---------------------------------------------------------- properties
InBounds(c) == c[1] \in 0..(width - 1) /\ c[2] \in 0..(height - 1)

\* The head (back of the deque) and the segment right behind it.
SnakeHead == positions[Len(positions)]
SnakeNeck == positions[Len(positions) - 1]

\* C1: on every board with width >= 1 and height >= 2, before and after
\* init() and after any sequence of keyboard_action and step() calls, every
\* coordinate of snake.positions is inside the grid.
C1_PositionsInBounds == \A i \in 1..Len(positions) : InBounds(positions[i])

\* A step heading RIGHT took the head from the last column to column 0.
C1_Witness ==
    /\ last = "step" /\ direction = "RIGHT" /\ width >= 2
    /\ Len(positions) >= 2
    /\ SnakeNeck[1] = width - 1 /\ SnakeHead[1] = 0

\* C2: every step() appends as new head the old head advanced one cell in the
\* current direction modulo the board dimension, the other axis unchanged.
C2_WrapAround ==
    [][last' = "step" =>
          LET o == SnakeHead
              n == positions'[Len(positions')]
          IN  /\ direction = "UP" =>
                    n = <<o[1], (o[2] + height - 1) % height>>
              /\ direction = "DOWN" => n = <<o[1], (o[2] + 1) % height>>
              /\ direction = "LEFT" =>
                    n = <<(o[1] + width - 1) % width, o[2]>>
              /\ direction = "RIGHT" => n = <<(o[1] + 1) % width, o[2]>>]_vars

\* A step heading UP took the head from row 0 to row height - 1 on a board
\* of height 3 or more.
C2_Witness ==
    /\ last = "step" /\ direction = "UP" /\ height >= 3
    /\ Len(positions) >= 2
    /\ SnakeNeck[2] = 0 /\ SnakeHead[2] = height - 1

\* The step being taken found the fruit in the post-move body.
Collides == \E i \in 1..Len(positions') : positions'[i] = fruit_position

\* C3 (as stated): a step that detects a fruit collision ends with the
\* length one more than before it, and a step that detects none leaves the
\* length unchanged.
C3_GrowsOnCollisionTick ==
    [][last' = "step" =>
          Len(positions') =
              Len(positions) + (IF Collides THEN 1 ELSE 0)]_vars

\* C3 (amended): a step ends with the length one more than before it exactly
\* when the growth counter was positive at its start, and unchanged
\* otherwise; a step that detects a collision leaves the counter positive,
\* so the growth shows one step after the collision.
C3_GrowsOneTickLater ==
    [][last' = "step" =>
          /\ Len(positions') =
                 Len(positions) + (IF grow > 0 THEN 1 ELSE 0)
          /\ Collides => grow' > 0]_vars

\* A step detected a collision and the snake still has its initial length.
C3_Witness == last = "step" /\ eaten # NoCoord /\ Len(positions) = 2

\* The symbol the grid should show at <<x, y>>.
Projection(x, y) ==
    {SNAKE_CHAR : i \in {j \in 1..Len(positions) : positions[j] = <<x, y>>}}
        \cup (IF fruit_position = <<x, y>> THEN {FRUIT_CHAR} ELSE {})

\* C4: after every step() the grid is the exact projection of the state:
\* Body at every body coordinate, Fruit at the fruit coordinate, Background
\* everywhere else.
C4_GridIsProjection ==
    last = "step" =>
        \A y \in 0..(height - 1) : \A x \in 0..(width - 1) :
            IF Projection(x, y) = {} THEN cells[y][x] = BG_CHAR
            ELSE Projection(x, y) = {cells[y][x]}

\* C5: after init() the grid shows Body at both snake coordinates and Fruit
\* at the fruit coordinate unless the fruit is on the snake.
C5_InitGrid ==
    last = "init" =>
        /\ \A i \in 1..Len(positions) :
               cells[positions[i][2]][positions[i][1]] = SNAKE_CHAR
        /\ ~contains(positions, fruit_position) =>
               cells[fruit_position[2]][fruit_position[1]] = FRUIT_CHAR

\* The length left once move_position has dealt with the tail.
LenAfterRemoval == Len(positions) - (IF grow > 0 THEN 0 ELSE 1)

\* C6: the snake is never empty, not even inside move_position after the
\* tail removal, and every step appends exactly one new head at the back.
C6_NeverEmpty ==
    /\ [](Len(positions) >= 1 /\ LenAfterRemoval >= 1)
    /\ [][last' = "step" =>
             /\ Len(positions') = LenAfterRemoval + 1
             /\ \A i \in 1..LenAfterRemoval :
                    positions'[i] = positions[i + Len(positions)
                                                - LenAfterRemoval]]_vars

\* A step removed the tail of a snake of the initial length 2.
C6_Witness ==
    /\ last = "step" /\ Len(positions) = 2
    /\ old_pos # positions[1] /\ positions[1] # positions[2]

\* C7: move_position returns the front of the sequence before the call; with
\* grow = 0 the new sequence is the old one without its front followed by the
\* new head, with grow > 0 the whole old one followed by the new head and
\* grow one less (before check_fruit adds its increment); on a 4x4 board
\* from [(2,2),(2,1)] heading DOWN it returns (2,2) and leaves [(2,1),(2,2)].
C7_ReturnsOldTail ==
    [][last' = "step" =>
          LET n == positions'[Len(positions')]
          IN  /\ old_pos' = positions[1]
              /\ grow = 0 => positions' = Append(Tail(positions), n)
              /\ grow > 0 =>
                    /\ positions' = Append(positions, n)
                    /\ grow' = grow - 1 + (IF Collides THEN 1 ELSE 0)
              /\ move_position(<< <<2, 2>>, <<2, 1>> >>, 0, "DOWN", 4, 4) =
                    [tail_pos |-> <<2, 2>>, grow |-> 0,
                     positions |-> << <<2, 1>>, <<2, 2>> >>]]_vars

\* A step with growth pending returned the tail and kept it at the front, on
\* a board where neighbouring segments are distinct cells.
C7_Witness ==
    /\ last = "step" /\ width >= 2 /\ height >= 3
    /\ Len(positions) = 3 /\ old_pos = positions[1]

\* C8: in step() the growth counter is incremented by 1 and the fruit is
\* redrawn if and only if the post-move body contains the fruit at any
\* segment; otherwise fruit and counter stay as move_position left them.
C8_CollisionAnywhere ==
    [][last' = "step" =>
          LET g == IF grow > 0 THEN grow - 1 ELSE grow
          IN  IF Collides
              THEN grow' = g + 1 /\ eaten' = fruit_position
              ELSE /\ grow' = g /\ eaten' = NoCoord
                   /\ fruit_position' = fruit_position]_vars

\* A step found the fruit under a segment other than the head.
C8_Witness ==
    /\ last = "step" /\ eaten # NoCoord /\ grow = 1
    /\ eaten # SnakeHead /\ contains(positions, eaten)

\* C9 (as stated): when the post-move body contains the fruit, the fruit
\* coordinate after the step differs from the consumed one.
C9_FruitMoves ==
    [][last' = "step" /\ Collides => fruit_position' # fruit_position]_vars

\* C9 (amended): when the post-move body contains the fruit, the fruit
\* coordinate after the step is a draw from the whole grid, which may be the
\* consumed coordinate again.
C9_FruitRedrawnInGrid ==
    [][(last # "new" /\ last' \in {"step", "panic"} /\ Collides) =>
          /\ fruit_position' \in (0..(width - 1)) \X (0..(height - 1))
          /\ last' = "step"
          /\ cells'[fruit_position'[2]][fruit_position'[1]] = FRUIT_CHAR]_vars

\* A step consumed the fruit and drew the same coordinate again.
C9_Witness == last = "step" /\ eaten = fruit_position

\* C10: keyboard_action with an arrow key sets the heading to the matching
\* direction whatever the heading was and changes nothing else; a key other
\* than the arrows and 'q' changes nothing.
C10_KeyboardFrame ==
    [][last' = "key" =>
          /\ UNCHANGED <<height, width, cells, size, positions, grow,
                         fruit_position>>
          /\ key' = "Up" => direction' = "UP"
          /\ key' = "Down" => direction' = "DOWN"
          /\ key' = "Left" => direction' = "LEFT"
          /\ key' = "Right" => direction' = "RIGHT"
          /\ key' \notin {"Up", "Down", "Left", "Right"} =>
                direction' = direction]_vars

\* The Up key turned the heading to UP right after a move DOWN.
C10_Witness ==
    /\ last = "key" /\ key = "Up" /\ direction = "UP"
    /\ Len(positions) >= 2 /\ height >= 3
    /\ SnakeHead = <<SnakeNeck[1], SnakeNeck[2] + 1>>

\* C11: once main has consumed the quit event the process has exited: the
\* poll that takes 'q' off the stream leads nowhere but to the exit, and
\* after the exit no step changes the game and no frame is printed.
C11_QuitEndsLoop ==
    [][/\ (/\ pc = "poll" /\ keys # <<>> /\ Head(keys) = "q"
           /\ Len(keys') < Len(keys)) => pc' = "exited"
       /\ pc = "exited" => UNCHANGED <<gvars, pc, frame>>
       /\ last = "exit" => UNCHANGED <<gvars, frame>>]_vars

\* The process exited on 'q' while another event was still pending.
C11_Witness ==
    pc = "exited" /\ last = "exit" /\ key = "q" /\ Len(keys) >= 1

\* C12: constructing a board with height = 0 or width = 0 fails instead of
\* returning a grid.
C12_ZeroBoardRejected == (height = 0 \/ width = 0) => last # "board"

\* step() has an outcome from here and none of its outcomes is a panic:
\* with the guard of Step, what enables Step and lets it complete.
StepCompletes ==
    LET out == step(cells, positions, grow, direction, fruit_position,
                    height, width)
    IN  out # {} /\ \A r \in out : r.cells # PANIC

\* The snake the next step leaves is within the length explored.
WithinMaxLen == Len(positions) + (IF grow > 0 THEN 1 ELSE 0) <= MaxLen

\* Two segments of the body share a cell.
SelfOverlap ==
    \E i, j \in 1..Len(positions) : i < j /\ positions[i] = positions[j]

\* C13: there is no game-over state: in every state after init() in which
\* no quit key was delivered, step() is enabled and runs to completion, also
\* when the body overlaps itself, and the process never panics.
C13_NoGameOver ==
    /\ last # "panic"
    /\ (last \notin {"new", "exit"} /\ WithinMaxLen) => StepCompletes

\* After a step the body overlaps itself and the next step is enabled.
C13_Witness ==
    /\ last = "step" /\ SelfOverlap /\ WithinMaxLen
    /\ StepCompletes

\* C14: each poll of the main loop takes at most one event off the stream,
\* the oldest, and is followed by exactly one step before the next poll; a
\* poll that finds nothing or a decode error leaves the heading unchanged,
\* and the heading changes nowhere but in a poll.
C14_OneEventPerTick ==
    [][/\ (pc = "poll" /\ pc' # "poll") =>
             /\ pc' \in {"step", "exited"}
             /\ keys' = IF keys = <<>> THEN keys ELSE Tail(keys)
             /\ (keys = <<>> \/ Head(keys) = "Err") =>
                    pc' = "step" /\ direction' = direction
       /\ (pc = "step" /\ pc' # "step") =>
             pc' = "poll" /\ keys' = keys /\ last' = "step"
       /\ direction' # direction => pc = "poll" /\ pc' = "step"]_vars

\* A poll applied an arrow key and left the next event pending.
C14_Witness ==
    /\ pc = "step" /\ last = "key" /\ key = "Left" /\ direction = "LEFT"
    /\ Len(keys) = MaxKeys - 1

\* C15: draw_snake erases the old tail cell before it redraws the body:
\* when the returned old tail is still a body coordinate after the move, its
\* cell shows Body after draw_snake, and is not Background after the step.
C15_EraseBeforeRedraw ==
    [][(last' = "step" /\ contains(positions', old_pos')) =>
          /\ draw_snake(cells, positions', old_pos')
                 [old_pos'[2]][old_pos'[1]] = SNAKE_CHAR
          /\ cells'[old_pos'[2]][old_pos'[1]] # BG_CHAR]_vars

\* A step kept the old tail in the body and its cell shows Body.
C15_Witness ==
    /\ last = "step" /\ contains(positions, old_pos)
    /\ cells[old_pos[2]][old_pos[1]] = SNAKE_CHAR

\* C16: the fruit coordinate is inside the grid in every state, and no cell
\* write of init() or step() is out of bounds: the process never panics.
C16_NoOutOfBounds ==
    /\ InBounds(fruit_position)
    /\ last # "panic" /\ cells # PANIC

\* A step drew the fruit in the far corner with the head in the near one.
C16_Witness ==
    /\ last = "step" /\ width >= 2
    /\ fruit_position = <<width - 1, height - 1>>
    /\ cells[height - 1][width - 1] = FRUIT_CHAR
    /\ SnakeHead = <<0, 0>>

\* C17: the exit code observed on the quit key, the low byte of the status
\* handed to exit, is nonzero.
C17_NonzeroExitCode == last = "exit" => exit_code % 256 # 0

\* C18: snake length plus pending growth equals 2 plus the number of steps
\* that detected a collision, and the length never decreases.
C18_GrowthConserved ==
    /\ [](Len(positions) + grow = 2 + collisions)
    /\ [][Len(positions') >= Len(positions)]_vars

\* Two steps detected a collision; one unit has been applied, one is pending.
C18_Witness ==
    last = "step" /\ collisions = 2 /\ Len(positions) = 3 /\ grow = 1

\* C19: the pending growth counter is 0 or 1 after init() and after every
\* step().
C19_GrowAtMostOne == grow \in {0, 1}

\* A step that started with growth pending detected a collision again.
C19_Witness ==
    /\ last = "step" /\ width >= 2 /\ height >= 3
    /\ Len(positions) = 3 /\ old_pos = positions[1]
    /\ eaten # NoCoord /\ grow = 1

\* C20: a fruit drawn onto the body by a step is found by the very next
\* step, whatever keys come in between: growth is pending, the tail is kept,
\* the body still contains the fruit, the fruit is redrawn and the counter
\* is incremented again.
C20_FruitUnderSnakeEaten ==
    /\ []((last = "step" /\ contains(positions, fruit_position)) =>
              (eaten # NoCoord /\ grow >= 1))
    /\ [][(/\ last' = "step" /\ eaten # NoCoord
            /\ contains(positions, fruit_position)) =>
              /\ Collides
              /\ eaten' = fruit_position
              /\ grow' = grow /\ grow >= 1
              /\ Len(positions') = Len(positions) + 1]_vars

\* A step found, under a segment behind the head, the fruit that the step
\* before it had drawn.
C20_Witness ==
    /\ last = "step" /\ width >= 2 /\ height >= 3
    /\ Len(positions) = 3 /\ old_pos = positions[1]
    /\ eaten # NoCoord /\ eaten # SnakeHead /\ contains(positions, eaten)

====
